---- MODULE Spec2Model ----
(***************************************************************************)
(* A model of express-controller-sets: the Record Controller               *)
(* (src/src/ControllerSets.js), the S3 Upload Adapter (src/src/s3upload.js)*)
(* and the parts of the external collaborators (the mongoose model, the    *)
(* multer upload) that the code's outcome depends on.                      *)
(*                                                                         *)
(* Names (field names, query parameter names) are TLA+ strings.  Values    *)
(* the code inspects character by character (identifiers, page numbers,    *)
(* orderBy, search terms) are tuples of one-character strings.             *)
(***************************************************************************)
EXTENDS Integers, Sequences, FiniteSets, TLC

VARIABLES
    cfg,      \* the controller configuration (constructor arguments)
    db,       \* the collection behind the model: its documents in insertion order
    lreq,     \* list: req.query of the request in flight
    lst,      \* list: the handler's position and locals
    lres,     \* list: the responses sent, in order
    lcalls,   \* list: the queries issued to the model, in order
    reqs,     \* getById, create, update, delete: the requests in flight
    delOk,    \* identifiers whose delete was answered 200 and that were not created since
    env,        \* upload: process.env as it is now
    envAtLoad,  \* upload: process.env as it was when s3upload.js was loaded
    missingEnv, \* upload: the module constant missingEnv
    up,         \* upload: the request passing through fileUploadMiddleware
    rt          \* router: its configuration and the request it is dispatching

listVars == <<lreq, lst, lres, lcalls>>
crudVars == <<reqs, delOk>>
upVars == <<env, envAtLoad, missingEnv, up>>
vars == <<cfg, db, lreq, lst, lres, lcalls, reqs, delOk, env, envAtLoad, missingEnv, up, rt>>

(***************************************************************************)
(* Bounds of the model.                                                    *)
(***************************************************************************)
\* the largest collection a list request runs against
MaxRecords == 26
\* the requests by identifier (and creates) that may be in flight together
NumReqs == 2
\* the requests that pass through the upload adapter, one after the other
MaxUploads == 2
\* the caller-supplied middlewares a router is built with
MaxMiddlewares == 2

(***************************************************************************)
(* Character strings.                                                      *)
(***************************************************************************)
Digits == <<"0", "1", "2", "3", "4", "5", "6", "7", "8", "9">>
LowerCase == <<"a", "b", "c", "d", "e", "f", "g", "h", "i", "j", "k", "l", "m",
               "n", "o", "p", "q", "r", "s", "t", "u", "v", "w", "x", "y", "z">>
UpperCase == <<"A", "B", "C", "D", "E", "F", "G", "H", "I", "J", "K", "L", "M",
               "N", "O", "P", "Q", "R", "S", "T", "U", "V", "W", "X", "Y", "Z">>
\* the characters of the model in code-point order
Alphabet == <<" ", ",", "-">> \o Digits \o UpperCase \o LowerCase

Range(s) == {s[i] : i \in DOMAIN s}
IndexIn(c, s) == CHOOSE i \in DOMAIN s : s[i] = c
CharCode(c) == IndexIn(c, Alphabet)
IsDigit(c) == c \in Range(Digits)
DigitVal(c) == IndexIn(c, Digits) - 1
ToLowerChar(c) == IF c \in Range(UpperCase) THEN LowerCase[IndexIn(c, UpperCase)] ELSE c
ToLower(s) == [i \in DOMAIN s |-> ToLowerChar(s[i])]
Rep(c, n) == [i \in 1..n |-> c]
Max(a, b) == IF a >= b THEN a ELSE b
Min(a, b) == IF a <= b THEN a ELSE b

RECURSIVE Join(_)
\* a name built from characters (orderBy.substring(1) used as a sort key)
Join(s) == IF s = <<>> THEN "" ELSE Head(s) \o Join(Tail(s))

RECURSIVE LexLess(_, _)
\* string comparison by code point, as the database orders string fields
LexLess(a, b) ==
    IF b = <<>> THEN FALSE
    ELSE IF a = <<>> THEN TRUE
    ELSE IF Head(a) # Head(b) THEN CharCode(Head(a)) < CharCode(Head(b))
    ELSE LexLess(Tail(a), Tail(b))

\* whether pattern p occurs in s (a regex without metacharacters)
Contains(s, p) ==
    \E i \in 0..(Len(s) - Len(p)) : SubSeq(s, i + 1, i + Len(p)) = p

(***************************************************************************)
(* Query-string values, as the HTTP framework's parser delivers them: a    *)
(* string, or (a repeated parameter) an array of strings.                  *)
(***************************************************************************)
StrV(s) == [t |-> "str", v |-> s]
ArrV(a) == [t |-> "arr", v |-> a]
Undef == [t |-> "undefined", v |-> <<>>]

RECURSIVE JoinComma(_)
JoinComma(a) ==
    IF a = <<>> THEN <<>>
    ELSE IF Len(a) = 1 THEN a[1]
    ELSE a[1] \o <<",">> \o JoinComma(Tail(a))

\* String(v)
ToStr(x) ==
    IF x.t = "str" THEN x.v
    ELSE IF x.t = "arr" THEN JoinComma(x.v)
    ELSE <<"u", "n", "d", "e", "f", "i", "n", "e", "d">>

\* the truthiness of a query value: only undefined and "" are falsy
Truthy(x) ==
    IF x.t = "undefined" THEN FALSE
    ELSE IF x.t = "str" THEN x.v # <<>>
    ELSE TRUE

\* req.query[k]
Param(q, k) == IF k \in DOMAIN q THEN q[k] ELSE Undef

(***************************************************************************)
(* parseInt(x): leading blanks skipped, an optional sign, then the longest *)
(* run of decimal digits; NaN when there is none.                          *)
(***************************************************************************)
NaN == [nan |-> TRUE, n |-> 0]
Num(n) == [nan |-> FALSE, n |-> n]

RECURSIVE SkipBlanks(_)
SkipBlanks(s) == IF s # <<>> /\ Head(s) = " " THEN SkipBlanks(Tail(s)) ELSE s

RECURSIVE DigitRun(_)
DigitRun(s) == IF s # <<>> /\ IsDigit(Head(s)) THEN <<Head(s)>> \o DigitRun(Tail(s)) ELSE <<>>

RECURSIVE DecValue(_, _)
DecValue(s, acc) == IF s = <<>> THEN acc ELSE DecValue(Tail(s), 10 * acc + DigitVal(Head(s)))

ParseInt(x) ==
    LET s == SkipBlanks(ToStr(x))
        neg == s # <<>> /\ Head(s) = "-"
        body == IF neg THEN Tail(s) ELSE s
        run == DigitRun(body)
    IN  IF run = <<>> THEN NaN
        ELSE Num(IF neg THEN 0 - DecValue(run, 0) ELSE DecValue(run, 0))

\* parseInt(x) || d : NaN and 0 are falsy
OrElse(p, d) == IF p.nan \/ p.n = 0 THEN d ELSE p.n

(***************************************************************************)
(* Identifiers and documents.                                              *)
(***************************************************************************)
HexLower == <<"0", "1", "2", "3", "4", "5", "6", "7", "8", "9", "a", "b", "c", "d", "e", "f">>
HexChars == Range(Digits) \cup {"a", "b", "c", "d", "e", "f", "A", "B", "C", "D", "E", "F"}

\* the mutant accepts any 24-character string
IsValidIdAnyChars(id) == Len(id) = 24

\* /^[0-9a-fA-F]{24}$/.test(id): what ObjectId.isValid answers for a string
IsValidId(id) == Len(id) = 24 /\ \A i \in 1..24 : id[i] \in HexChars

\* the i-th identifier the database hands out (i < 256)
IdOf(i) == Rep("0", 22) \o <<HexLower[(i \div 16) + 1], HexLower[(i % 16) + 1]>>

Fields == {"_id", "cat", "name", "role"}
Doc(id, c, n, r) == [_id |-> id, cat |-> c, name |-> n, role |-> r]

CatX == <<"x">>
CatY == <<"y">>
NameAl == <<"A", "l">>
NameAlma == <<"a", "l", "m", "a">>
NameBob == <<"B", "o", "b">>
NameZed == <<"z", "e", "d">>
RoleUser == <<"u", "s", "e", "r">>
RoleAdmin == <<"a", "d", "m", "i", "n">>

\* the i-th document of the collection a list request runs against
ListDoc(i) ==
    Doc(IdOf(i),
        <<CatX, CatY>>[(i % 2) + 1],
        <<NameBob, NameAl, NameZed, NameAlma>>[(i % 4) + 1],
        <<RoleUser, RoleUser, RoleAdmin>>[(i % 3) + 1])
ListColl(n) == [i \in 1..n |-> ListDoc(i)]

(***************************************************************************)
(* The model (mongoose): how it answers the queries the controller issues. *)
(***************************************************************************)
EmptyMap == <<>>
RegexEntry(p) == [t |-> "regex", v |-> p, options |-> "i"]

\* one filter entry against one field value
EntryMatches(val, e) ==
    IF e.t = "regex" THEN
        IF e.options = "i" THEN Contains(ToLower(val), ToLower(e.v)) ELSE Contains(val, e.v)
    ELSE IF e.t = "str" THEN val = e.v
    ELSE FALSE

Matches(doc, filter) ==
    \A k \in DOMAIN filter : k \in DOMAIN doc /\ EntryMatches(doc[k], filter[k])

\* a before b under the sort specification (at most one key)
SortedBefore(a, b, sort) ==
    IF DOMAIN sort = {} THEN FALSE
    ELSE LET k == CHOOSE x \in DOMAIN sort : TRUE
         IN  IF k \notin DOMAIN a THEN FALSE
             ELSE IF sort[k] = 1 THEN LexLess(a[k], b[k]) ELSE LexLess(b[k], a[k])

NoLimit == 0 - 1
FindCall(filter, sort, skip, limit) ==
    [op |-> "find", filter |-> filter, sort |-> sort, skip |-> skip, limit |-> limit]
CountCall(filter) == [op |-> "countDocuments", filter |-> filter]

\* Model.find(filter).skip(skip).limit(limit).sort(sort): sort, then skip, then limit
RunFind(coll, call) ==
    LET hit == SelectSeq(coll, LAMBDA d : Matches(d, call.filter))
        ord == IF DOMAIN call.sort = {} THEN hit
               ELSE SortSeq(hit, LAMBDA a, b : SortedBefore(a, b, call.sort))
        from == call.skip + 1
        to == IF call.limit = NoLimit THEN Len(ord) ELSE Min(Len(ord), call.skip + call.limit)
    IN  SubSeq(ord, from, to)

\* Model.countDocuments(filter)
RunCount(coll, call) == Len(SelectSeq(coll, LAMBDA d : Matches(d, call.filter)))

(***************************************************************************)
(* ControllerSets.getAll and getPaginatedResults.                          *)
(***************************************************************************)
StrNone == <<"n", "o", "n", "e">>
MaxPageSize == 100
DefaultPageSize == 50

RECURSIVE ReduceQuery(_, _, _)
\* this.query.reduce(...): an allow-listed key is copied when req.query has it
ReduceQuery(keys, q, acc) ==
    IF keys = <<>> THEN acc
    ELSE ReduceQuery(Tail(keys), q,
                     IF Param(q, Head(keys)) # Undef
                     THEN (Head(keys) :> Param(q, Head(keys))) @@ acc
                     ELSE acc)

\* a faulty variant: every query parameter is copied into the filter
AllowListFiltersCopyAll(c, q) == q

AllowListFilters(c, q) == ReduceQuery(c.query, q, EmptyMap)

\* this.search !== "none" && req.query[this.search]
SearchApplies(c, q) == c.search # "none" /\ Truthy(Param(q, c.search))

\* a faulty variant: the search entry does not replace an allow-list entry
BuildFiltersNoOverride(c, q) ==
    LET base == AllowListFilters(c, q)
    IN  IF SearchApplies(c, q)
        THEN base @@ (c.search :> RegexEntry(ToStr(Param(q, c.search))))
        ELSE base

BuildFilters(c, q) ==
    LET base == AllowListFilters(c, q)
    IN  IF SearchApplies(c, q)
        THEN (c.search :> RegexEntry(ToStr(Param(q, c.search)))) @@ base
        ELSE base

\* a faulty variant: the descending marker is stripped but the direction is
\* always ascending
BuildSortAscending(orderBy) ==
    IF orderBy = StrNone THEN EmptyMap
    ELSE LET isDescending == orderBy # <<>> /\ Head(orderBy) = "-"
             sortKey == IF isDescending THEN Tail(orderBy) ELSE orderBy
         IN  Join(sortKey) :> 1

\* let sort = {}; if (this.orderBy !== "none") { ... }
BuildSort(orderBy) ==
    IF orderBy = StrNone THEN EmptyMap
    ELSE LET isDescending == orderBy # <<>> /\ Head(orderBy) = "-"
             sortKey == IF isDescending THEN Tail(orderBy) ELSE orderBy
         IN  Join(sortKey) :> (IF isDescending THEN 0 - 1 ELSE 1)

\* a faulty variant: the paginated path is taken whenever page is present
TakesPagePathWhenPresent(q) == Param(q, "page") # Undef

\* if (req.query.page)
TakesPagePath(q) == Truthy(Param(q, "page"))

PageOf(q) == Max(1, OrElse(ParseInt(Param(q, "page")), 1))

\* a faulty variant: the page size is not capped
PageSizeOfUncapped(q) == Max(1, OrElse(ParseInt(Param(q, "pageSize")), DefaultPageSize))

PageSizeOf(q) ==
    Min(MaxPageSize, Max(1, OrElse(ParseInt(Param(q, "pageSize")), DefaultPageSize)))

SkipOf(page, pageSize) == (page - 1) * pageSize

\* Math.ceil(totalRecords / pageSize)
Ceil(a, b) == IF a % b = 0 THEN a \div b ELSE (a \div b) + 1

ErrorResponse(statusCode, message) ==
    [status |-> statusCode, body |-> [success |-> FALSE, error |-> message]]
DataResponse(statusCode, data) ==
    [status |-> statusCode, body |-> [success |-> TRUE, data |-> data]]
PageResponse(data, page, pageSize, totalRecords) ==
    [status |-> 200,
     body |-> [success |-> TRUE, data |-> data,
               pagination |-> [currentPage |-> page, pageSize |-> pageSize,
                               totalPages |-> Ceil(totalRecords, pageSize),
                               totalRecords |-> totalRecords]]]

NoCall == [op |-> "none"]
ListIdle ==
    [pc |-> "idle", findCall |-> NoCall, countCall |-> NoCall, page |-> 0, pageSize |-> 0,
     pendCount |-> FALSE, pendFind |-> FALSE, total |-> 0, data |-> <<>>,
     sawFind |-> 0, writes |-> 0]

\* GET / : the synchronous part of getAll, up to its first await
GetAll(q) ==
    /\ lst.pc = "idle"
    /\ lreq' = q
    /\ LET filters == BuildFilters(cfg, q)
           sort == BuildSort(cfg.orderBy)
       IN  IF TakesPagePath(q)
           THEN LET page == PageOf(q)
                    pageSize == PageSizeOf(q)
                    cnt == CountCall(filters)
                    fnd == FindCall(filters, sort, SkipOf(page, pageSize), pageSize)
                IN  /\ lcalls' = lcalls \o <<cnt, fnd>>
                    /\ lst' = [lst EXCEPT !.pc = "page", !.findCall = fnd, !.countCall = cnt,
                                          !.page = page, !.pageSize = pageSize,
                                          !.pendCount = TRUE, !.pendFind = TRUE]
           ELSE LET fnd == FindCall(filters, sort, 0, NoLimit)
                IN  /\ lcalls' = Append(lcalls, fnd)
                    /\ lst' = [lst EXCEPT !.pc = "find", !.findCall = fnd]
    /\ UNCHANGED <<cfg, db, lres>>
    /\ UNCHANGED crudVars
    /\ UNCHANGED upVars
    /\ UNCHANGED rt

\* getAll resumes after await this.model.find(filters).sort(sort).lean()
ListFindDone(ok) ==
    /\ lst.pc = "find"
    /\ lres' = Append(lres, IF ok THEN DataResponse(200, RunFind(db, lst.findCall))
                            ELSE ErrorResponse(500, "Failed to retrieve entries."))
    /\ lst' = [lst EXCEPT !.pc = "done", !.sawFind = RunCount(db, lst.findCall)]
    /\ UNCHANGED <<cfg, db, lreq, lcalls>>
    /\ UNCHANGED crudVars
    /\ UNCHANGED upVars
    /\ UNCHANGED rt

\* countDocuments settles; Promise.all rejects on the first rejection and
\* resolves when both have resolved
PageCountDone(ok) ==
    /\ lst.pendCount
    /\ LET total == RunCount(db, lst.countCall)
       IN  IF lst.pc = "done"
           THEN /\ lst' = [lst EXCEPT !.pendCount = FALSE]
                /\ lres' = lres
           ELSE IF ~ok
           THEN /\ lst' = [lst EXCEPT !.pendCount = FALSE, !.pc = "done"]
                /\ lres' = Append(lres, ErrorResponse(500, "Pagination error."))
           ELSE IF lst.pendFind
           THEN /\ lst' = [lst EXCEPT !.pendCount = FALSE, !.total = total]
                /\ lres' = lres
           ELSE /\ lst' = [lst EXCEPT !.pendCount = FALSE, !.total = total,
                                      !.pc = "done"]
                /\ lres' = Append(lres, PageResponse(lst.data, lst.page, lst.pageSize, total))
    /\ UNCHANGED <<cfg, db, lreq, lcalls>>
    /\ UNCHANGED crudVars
    /\ UNCHANGED upVars
    /\ UNCHANGED rt

\* find(filters).skip(skip).limit(pageSize).sort(sort).lean() settles
PageFindDone(ok) ==
    /\ lst.pendFind
    /\ LET data == RunFind(db, lst.findCall)
       IN  IF lst.pc = "done"
           THEN /\ lst' = [lst EXCEPT !.pendFind = FALSE]
                /\ lres' = lres
           ELSE IF ~ok
           THEN /\ lst' = [lst EXCEPT !.pendFind = FALSE, !.pc = "done"]
                /\ lres' = Append(lres, ErrorResponse(500, "Pagination error."))
           ELSE IF lst.pendCount
           THEN /\ lst' = [lst EXCEPT !.pendFind = FALSE, !.data = data, !.sawFind = RunCount(db, lst.findCall)]
                /\ lres' = lres
           ELSE /\ lst' = [lst EXCEPT !.pendFind = FALSE, !.data = data, !.sawFind = RunCount(db, lst.findCall),
                                      !.pc = "done"]
                /\ lres' = Append(lres, PageResponse(data, lst.page, lst.pageSize, lst.total))
    /\ UNCHANGED <<cfg, db, lreq, lcalls>>
    /\ UNCHANGED crudVars
    /\ UNCHANGED upVars
    /\ UNCHANGED rt

\* writes by other clients while a list request is in flight, per request
MaxConcurrentWrites == 1

\* another client inserts or removes a document while the list request waits
ListConcurrentWrite ==
    /\ lst.pc \in {"find", "page"}
    /\ lst.writes < MaxConcurrentWrites
    /\ \/ /\ Len(db) < MaxRecords
          /\ db' = Append(db, ListDoc(Len(db) + 1))
       \/ /\ Len(db) > 0
          /\ db' = SubSeq(db, 1, Len(db) - 1)
    /\ lst' = [lst EXCEPT !.writes = @ + 1]
    /\ UNCHANGED <<cfg, lreq, lres, lcalls>>
    /\ UNCHANGED crudVars
    /\ UNCHANGED upVars
    /\ UNCHANGED rt

(***************************************************************************)
(* The model (mongoose): documents by identifier, schema validation.       *)
(***************************************************************************)
Null == [null |-> TRUE]
IdsIn(coll) == {coll[i]._id : i \in DOMAIN coll}

\* Model.findById(id)
FindById(coll, id) ==
    IF id \in IdsIn(coll) THEN coll[CHOOSE i \in DOMAIN coll : coll[i]._id = id] ELSE Null

\* the schema: cat is one of two categories, name is not empty
ValidField(k, x) ==
    IF k = "cat" THEN x \in {CatX, CatY}
    ELSE IF k = "name" THEN x # <<>>
    ELSE TRUE
ValidBody(body) == \A k \in DOMAIN body : ValidField(k, body[k])
RequiredFields == {"cat", "name"}
ValidNewDoc(body) == RequiredFields \subseteq DOMAIN body /\ ValidBody(body)

\* the document Model.create(body) stores under identifier id
NewDoc(id, body) == Doc(id, body["cat"], body["name"], RoleUser)

\* { $set: body }: only the keys of the body change
ApplySet(doc, body) ==
    [k \in DOMAIN doc |-> IF k \in DOMAIN body THEN body[k] ELSE doc[k]]

ReplaceDoc(coll, id, doc) == [i \in DOMAIN coll |-> IF coll[i]._id = id THEN doc ELSE coll[i]]

\* a faulty variant: the removal drops every document
RemoveDocAll(coll, id) == <<>>

\* Model.findByIdAndDelete(id)
RemoveDoc(coll, id) == SelectSeq(coll, LAMBDA d : d._id # id)

(***************************************************************************)
(* ControllerSets.getObjectById, getById, create, update, delete.  A       *)
(* request is a task that is suspended at each await; its steps interleave *)
(* with the steps of the other requests.                                   *)
(***************************************************************************)
Reqs == 1..NumReqs
MessageResponse(statusCode, message) ==
    [status |-> statusCode, body |-> [success |-> TRUE, message |-> message]]

ReqIdle ==
    [pc |-> "idle", op |-> "none", id |-> <<>>, body |-> EmptyMap, obj |-> Null,
     res |-> <<>>, calls |-> 0, writes |-> 0, cb |-> 0, cbArg |-> Null,
     seen |-> "none", fail |-> "none", inserted |-> Null, late |-> FALSE]

\* a faulty variant: the caller answers once more after the answer is sent
AnswerTwice(q, response) ==
    [q EXCEPT !.res = Append(Append(@, response), response), !.pc = "done"]

\* return res.status(...).json(...): the response is sent and the handler returns
Answer(q, response) == [q EXCEPT !.res = Append(@, response), !.pc = "done"]

\* getObjectById up to its await: an invalid identifier is answered 400 and
\* null returned, so the caller returns; otherwise findById is issued
GetObjectByIdStart(r, op, id, body) ==
    /\ reqs[r].pc = "idle"
    /\ LET q == [ReqIdle EXCEPT !.op = op, !.id = id, !.body = body, !.late = (id \in delOk)]
       IN  reqs' = [reqs EXCEPT ![r] =
                        IF ~IsValidId(id)
                        THEN Answer(q, ErrorResponse(400, "Invalid ID format."))
                        ELSE [q EXCEPT !.pc = "lookup", !.calls = 1]]
    /\ UNCHANGED <<cfg, db, delOk>>
    /\ UNCHANGED listVars
    /\ UNCHANGED upVars
    /\ UNCHANGED rt

\* GET /:id
GetById(r, id) == GetObjectByIdStart(r, "getById", id, EmptyMap)

\* PATCH /:id
Update(r, id, body) == GetObjectByIdStart(r, "update", id, body)

\* DELETE /:id
Delete(r, id) == GetObjectByIdStart(r, "delete", id, EmptyMap)

\* getObjectById resumes after await this.model.findById(id), and its caller
\* after it: getById answers, update and delete issue their write
LookupDone(r, ok) ==
    /\ reqs[r].pc = "lookup"
    /\ LET q == reqs[r]
           object == FindById(db, q.id)
       IN  reqs' = [reqs EXCEPT ![r] =
                IF ~ok
                THEN Answer([q EXCEPT !.seen = "threw", !.fail = "backend"],
                            ErrorResponse(500, "Database lookup failed."))
                ELSE IF object = Null
                THEN Answer([q EXCEPT !.seen = "null"], ErrorResponse(404, "Entry not found."))
                ELSE IF q.op = "getById"
                THEN Answer([q EXCEPT !.seen = "doc", !.obj = object], DataResponse(200, object))
                ELSE [q EXCEPT !.seen = "doc", !.obj = object, !.calls = @ + 1, !.writes = @ + 1,
                               !.pc = IF q.op = "update" THEN "write" ELSE "remove"]]
    /\ UNCHANGED <<cfg, db, delOk>>
    /\ UNCHANGED listVars
    /\ UNCHANGED upVars
    /\ UNCHANGED rt

\* Model.findByIdAndUpdate(id, {$set: body}, {new: true, runValidators: true})
\* once validation has passed: the updated document, or null when there is
\* none with that identifier
FindByIdAndUpdate(coll, id, body) ==
    IF id \in IdsIn(coll)
    THEN [coll |-> ReplaceDoc(coll, id, ApplySet(FindById(coll, id), body)),
          doc |-> ApplySet(FindById(coll, id), body)]
    ELSE [coll |-> coll, doc |-> Null]

\* update resumes after await this.model.findByIdAndUpdate(...)
UpdateDone(r, ok) ==
    /\ reqs[r].pc = "write"
    /\ LET q == reqs[r]
           out == FindByIdAndUpdate(db, q.obj._id, q.body)
       IN  IF ~ok
           THEN /\ reqs' = [reqs EXCEPT ![r] =
                               Answer([q EXCEPT !.fail = "backend"],
                                      ErrorResponse(400, "Update failed. Check your data."))]
                /\ db' = db
           ELSE IF ~ValidBody(q.body)
           THEN /\ reqs' = [reqs EXCEPT ![r] =
                               Answer([q EXCEPT !.fail = "validation"],
                                      ErrorResponse(400, "Update failed. Check your data."))]
                /\ db' = db
           ELSE /\ reqs' = [reqs EXCEPT ![r] = Answer(q, DataResponse(200, out.doc))]
                /\ db' = out.coll
    /\ UNCHANGED <<cfg, delOk>>
    /\ UNCHANGED listVars
    /\ UNCHANGED upVars
    /\ UNCHANGED rt

\* delete resumes after await this.model.findByIdAndDelete(object._id)
DeleteDone(r, ok) ==
    /\ reqs[r].pc = "remove"
    /\ LET q == reqs[r]
       IN  IF ~ok
           THEN /\ reqs' = [reqs EXCEPT ![r] =
                               Answer([q EXCEPT !.fail = "backend"],
                                      ErrorResponse(500, "Deletion failed."))]
                /\ UNCHANGED <<db, delOk>>
           ELSE /\ reqs' = [reqs EXCEPT ![r] =
                               Answer(q, MessageResponse(200, "Item successfully deleted."))]
                /\ db' = RemoveDoc(db, q.obj._id)
                /\ delOk' = delOk \cup {q.obj._id}
    /\ UNCHANGED cfg
    /\ UNCHANGED listVars
    /\ UNCHANGED upVars
    /\ UNCHANGED rt

\* POST / : create up to await this.model.create(req.body)
Create(r, body) ==
    /\ reqs[r].pc = "idle"
    /\ reqs' = [reqs EXCEPT ![r] =
                   [ReqIdle EXCEPT !.op = "create", !.body = body, !.pc = "insert",
                                   !.calls = 1, !.writes = 1]]
    /\ UNCHANGED <<cfg, db, delOk>>
    /\ UNCHANGED listVars
    /\ UNCHANGED upVars
    /\ UNCHANGED rt

\* what the insert throws, or "none"
InsertError(coll, body, backendOk) ==
    IF ~backendOk THEN "backend"
    ELSE IF ~ValidNewDoc(body) THEN "validation"
    ELSE IF "_id" \in DOMAIN body /\ body["_id"] \in IdsIn(coll) THEN "duplicate"
    ELSE "none"
InsertErrorMessage(kind) ==
    IF kind = "backend" THEN "connection lost"
    ELSE IF kind = "validation" THEN "Validation failed"
    ELSE "E11000 duplicate key error"

\* create after a successful insert: the callback, when it is a function, is
\* called with the result and awaited; otherwise the response is sent
AfterInsert(q, doc) ==
    IF cfg.runAfterCreate = "function"
    THEN [q EXCEPT !.inserted = doc, !.cb = @ + 1, !.cbArg = doc, !.pc = "callback"]
    ELSE Answer([q EXCEPT !.inserted = doc], DataResponse(201, doc))

\* create resumes after await this.model.create(req.body); the identifier of
\* the new document is the body's _id or one the driver generates
InsertDone(r, ok, newId) ==
    /\ reqs[r].pc = "insert"
    /\ LET q == reqs[r]
           err == InsertError(db, q.body, ok)
           id == IF "_id" \in DOMAIN q.body THEN q.body["_id"] ELSE newId
           doc == NewDoc(id, q.body)
       IN  /\ (err = "none" /\ "_id" \notin DOMAIN q.body) => id \notin IdsIn(db)
           /\ IF err # "none"
              THEN /\ reqs' = [reqs EXCEPT ![r] =
                                  Answer([q EXCEPT !.fail = err],
                                         ErrorResponse(400, InsertErrorMessage(err)))]
                   /\ UNCHANGED <<db, delOk>>
              ELSE /\ reqs' = [x \in Reqs |->
                                  IF x = r THEN AfterInsert(q, doc)
                                  ELSE IF reqs[x].id = id THEN [reqs[x] EXCEPT !.late = FALSE]
                                  ELSE reqs[x]]
                   /\ db' = Append(db, doc)
                   /\ delOk' = delOk \ {id}
    /\ UNCHANGED cfg
    /\ UNCHANGED listVars
    /\ UNCHANGED upVars
    /\ UNCHANGED rt

\* create resumes after await this.runAfterCreate(result).  A thrown Error is
\* logged by the inner catch; a thrown null or undefined makes the inner
\* catch itself throw (callbackError.message), which the outer catch answers
CallbackDone(r, outcome) ==
    /\ reqs[r].pc = "callback"
    /\ LET q == reqs[r]
       IN  reqs' = [reqs EXCEPT ![r] =
                IF outcome = "returns" THEN Answer(q, DataResponse(201, q.inserted))
                ELSE IF outcome = "throwsError"
                THEN Answer(q, DataResponse(201, q.inserted))
                ELSE Answer([q EXCEPT !.fail = "callback"],
                            ErrorResponse(400, "Cannot read properties of undefined (reading 'message')"))]
    /\ UNCHANGED <<cfg, db, delOk>>
    /\ UNCHANGED listVars
    /\ UNCHANGED upVars
    /\ UNCHANGED rt

\* the request is over: the next one may arrive
Finish(r) ==
    /\ reqs[r].pc = "done"
    /\ reqs' = [reqs EXCEPT ![r] = ReqIdle]
    /\ UNCHANGED <<cfg, db, delOk>>
    /\ UNCHANGED listVars
    /\ UNCHANGED upVars
    /\ UNCHANGED rt

(***************************************************************************)
(* s3upload.js: the module-level configuration check and                   *)
(* fileUploadMiddleware.  multer's upload is an external step that ends by *)
(* calling handleUploadResult with or without an error.                    *)
(***************************************************************************)
requiredEnv == <<"S3_ENDPOINT", "S3_SPACES_KEY", "S3_SPACES_SECRET", "S3_BUCKET_NAME">>

\* !process.env[key]: unset or empty
EnvFalsy(e, key) == key \notin DOMAIN e \/ e[key] = ""

\* requiredEnv.filter(key => !process.env[key])
MissingEnvOf(e) == SelectSeq(requiredEnv, LAMBDA key : EnvFalsy(e, key))

\* a faulty variant: the configuration is looked at again on every request
ConfigMissingNow == Len(MissingEnvOf(env)) > 0

\* missingEnv.length > 0
ConfigMissing == Len(missingEnv) > 0

Field(name, maxCount) == [name |-> name, maxCount |-> maxCount]
\* the location the storage gives the i-th file of the request
Locations == <<"https://s3/files/1.png", "https://s3/files/2.png", "https://s3/files/3.png">>
File(fieldname, i) == [fieldname |-> fieldname, location |-> Locations[i]]
FilesOf(parts) == [i \in DOMAIN parts |-> File(parts[i], i)]
FilesFor(files, name) == SelectSeq(files, LAMBDA f : f.fieldname = name)
Undefined == [undefined |-> TRUE]

\* multer: the files a field may still take; a file for a field that is not
\* declared, or one more than its maxCount, is LIMIT_UNEXPECTED_FILE
LimitsOk(limits, files) ==
    \A f \in Range(files) :
        /\ \E d \in Range(limits) : d.name = f.fieldname
        /\ \A d \in Range(limits) :
               d.name = f.fieldname => Len(FilesFor(files, f.fieldname)) <= d.maxCount

\* upload.single(name) accepts one file of that field; upload.fields(fields)
\* what the descriptors declare
UploadLimits(fields) == IF Len(fields) = 1 THEN <<Field(fields[1].name, 1)>> ELSE fields

\* the error handleUploadResult is called with, or "none"
UploadError(fields, files, storage) ==
    IF ~LimitsOk(UploadLimits(fields), files) THEN "Unexpected field"
    ELSE IF storage = "fails" THEN "Access Denied"
    ELSE IF storage = "failsNoMessage" THEN ""
    ELSE "none"

\* req.file as upload.single leaves it; upload.fields does not set it
ReqFile(fields, files) ==
    IF Len(fields) = 1 /\ files # <<>> THEN files[1] ELSE Undefined

\* req.files as upload.fields leaves it: the files by field name, for the
\* fields that got any; upload.single does not set it
ReqFiles(fields, files) ==
    IF Len(fields) = 1 THEN Undefined
    ELSE [n \in {f.fieldname : f \in Range(files)} |-> FilesFor(files, n)]

LocationsOf(fs) == [i \in DOMAIN fs |-> fs[i].location]

RECURSIVE PopulateFields(_, _, _)
\* fields.forEach(...): a field that got files maps to its first location
\* when maxCount is 1 and to the list of its locations otherwise
PopulateFields(fields, reqFiles, body) ==
    IF fields = <<>> THEN body
    ELSE LET field == Head(fields)
             next == IF field.name \in DOMAIN reqFiles
                     THEN LET locations == LocationsOf(reqFiles[field.name])
                          IN  (field.name :> (IF field.maxCount = 1 THEN StrV(locations[1])
                                              ELSE ArrV(locations))) @@ body
                     ELSE body
         IN  PopulateFields(Tail(fields), reqFiles, next)

\* handleUploadResult without an error: req.body populated with locations
PopulateBody(fields, reqFile, reqFiles, body) ==
    IF Len(fields) = 1 /\ reqFile # Undefined
    THEN (fields[1].name :> StrV(reqFile.location)) @@ body
    ELSE IF reqFiles # Undefined
    THEN PopulateFields(fields, reqFiles, body)
    ELSE body

UpIdle ==
    [pc |-> "idle", fields |-> <<>>, files |-> <<>>, body0 |-> EmptyMap, body |-> EmptyMap,
     res |-> <<>>, next |-> 0, attempted |-> FALSE, error |-> "none", bodyAtNext |-> Undefined,
     served |-> 0]

\* fileUploadMiddleware(req, res, next, uploadPath, fields) up to the upload
FileUploadMiddleware(fields, parts, body) ==
    /\ up.pc = "idle"
    /\ up.served < MaxUploads
    /\ LET q == [up EXCEPT !.fields = fields, !.files = FilesOf(parts), !.body0 = body,
                           !.body = body]
       IN  up' = IF ConfigMissing
                 THEN [q EXCEPT !.pc = "done",
                                !.res = Append(@, ErrorResponse(503,
                                    "S3 service is not properly configured on the server."))]
                 ELSE [q EXCEPT !.pc = "uploading", !.attempted = TRUE]
    /\ UNCHANGED <<env, envAtLoad, missingEnv, cfg, db>>
    /\ UNCHANGED listVars
    /\ UNCHANGED crudVars
    /\ UNCHANGED rt

\* multer is through with the request and calls handleUploadResult
HandleUploadResult(storage) ==
    /\ up.pc = "uploading"
    /\ LET error == UploadError(up.fields, up.files, storage)
           body == PopulateBody(up.fields, ReqFile(up.fields, up.files),
                                ReqFiles(up.fields, up.files), up.body)
       IN  up' = IF error # "none"
                 THEN [up EXCEPT !.pc = "done", !.error = error,
                                 !.res = Append(@, ErrorResponse(500,
                                     IF error # "" THEN error
                                     ELSE "Failed to process S3 upload."))]
                 ELSE [up EXCEPT !.pc = "done", !.body = body, !.bodyAtNext = body,
                                 !.next = @ + 1]
    /\ UNCHANGED <<env, envAtLoad, missingEnv, cfg, db>>
    /\ UNCHANGED listVars
    /\ UNCHANGED crudVars
    /\ UNCHANGED rt

\* the request is over: the next one may arrive
UploadFinish ==
    /\ up.pc = "done"
    /\ up' = [UpIdle EXCEPT !.served = up.served + 1]
    /\ UNCHANGED <<env, envAtLoad, missingEnv, cfg, db>>
    /\ UNCHANGED listVars
    /\ UNCHANGED crudVars
    /\ UNCHANGED rt

\* the process environment is changed while the server runs
EnvChange(e) ==
    /\ e # env
    /\ env' = e
    /\ UNCHANGED <<envAtLoad, missingEnv, up, cfg, db>>
    /\ UNCHANGED listVars
    /\ UNCHANGED crudVars
    /\ UNCHANGED rt

(***************************************************************************)
(* router_verify.js: createRouter and createRouterS3upload register the    *)
(* routes; express (external) runs, for a request, the middlewares given   *)
(* to router.use and then the handlers of the first route that matches,    *)
(* each one when the one before it has called next().                      *)
(***************************************************************************)
Route(method, path, handlers) == [method |-> method, path |-> path, handlers |-> handlers]

\* a faulty variant: the upload-enabled router binds create and update
\* without the adapter in front
RouteTableNoAdapter(kind) ==
    <<Route("GET", "/", <<"getAll">>),
      Route("POST", "/", <<"create">>),
      Route("GET", "/:id", <<"getById">>),
      Route("PATCH", "/:id", <<"update">>),
      Route("DELETE", "/:id", <<"delete">>)>>

\* the routes in the order of their registration
RouteTable(kind) ==
    IF kind = "createRouter"
    THEN <<Route("GET", "/", <<"getAll">>),
           Route("POST", "/", <<"create">>),
           Route("GET", "/:id", <<"getById">>),
           Route("PATCH", "/:id", <<"update">>),
           Route("DELETE", "/:id", <<"delete">>)>>
    ELSE <<Route("GET", "/", <<"getAll">>),
           Route("POST", "/", <<"fileUploadMiddleware", "create">>),
           Route("GET", "/:id", <<"getById">>),
           Route("PATCH", "/:id", <<"fileUploadMiddleware", "update">>),
           Route("DELETE", "/:id", <<"delete">>)>>

\* if (middlewares.length > 0) router.use(middlewares), ahead of the routes
MiddlewareChain(n) == [i \in 1..n |-> "middleware"]

\* express: the handlers the request runs through
HandlersFor(kind, n, method, path) ==
    LET table == RouteTable(kind)
        hits == {i \in DOMAIN table : table[i].method = method /\ table[i].path = path}
    IN  MiddlewareChain(n) \o
            (IF hits = {} THEN <<>> ELSE table[CHOOSE i \in hits : \A j \in hits : i <= j].handlers)

RtIdle ==
    [pc |-> "idle", kind |-> "none", middlewares |-> 0, fields |-> <<>>,
     method |-> "none", path |-> "none", id |-> <<>>, body |-> EmptyMap, query |-> EmptyMap,
     parts |-> <<>>, chain |-> <<>>, pos |-> 0, passed |-> 0, res |-> <<>>, db0 |-> <<>>]

\* the handler the request is at
Current == IF rt.pc = "routing" /\ rt.pos <= Len(rt.chain) THEN rt.chain[rt.pos] ELSE "none"

\* a request reaches the router
RouteRequest(method, path, id, body, query, parts) ==
    /\ rt.pc = "idle"
    /\ rt' = [rt EXCEPT !.pc = "routing", !.method = method, !.path = path, !.id = id,
                        !.body = body, !.query = query, !.parts = parts,
                        !.chain = HandlersFor(rt.kind, rt.middlewares, method, path),
                        !.pos = 1, !.db0 = db]
    /\ UNCHANGED <<cfg, db>>
    /\ UNCHANGED listVars
    /\ UNCHANGED crudVars
    /\ UNCHANGED upVars

\* a caller-supplied middleware calls next() or answers the request itself
RunMiddleware(outcome) ==
    /\ Current = "middleware"
    /\ rt' = IF outcome = "next"
             THEN [rt EXCEPT !.pos = @ + 1, !.passed = @ + 1]
             ELSE [rt EXCEPT !.pc = "done",
                             !.res = Append(@, ErrorResponse(401, "Unauthorized"))]
    /\ UNCHANGED <<cfg, db>>
    /\ UNCHANGED listVars
    /\ UNCHANGED crudVars
    /\ UNCHANGED upVars

\* (req, res, next) => { fileUploadMiddleware(req, res, next, path, fields); }
RunUploadAdapter ==
    /\ Current = "fileUploadMiddleware"
    /\ FileUploadMiddleware(rt.fields, rt.parts, rt.body)

\* the adapter has called next(): express goes on to the next handler, which
\* sees the body the adapter left
UploadOnward ==
    /\ Current = "fileUploadMiddleware"
    /\ up.pc = "done"
    /\ up.next > 0
    /\ rt' = [rt EXCEPT !.pos = @ + 1, !.body = up.body]
    /\ UNCHANGED <<cfg, db>>
    /\ UNCHANGED listVars
    /\ UNCHANGED crudVars
    /\ UNCHANGED upVars

\* the adapter has answered the request: no later handler runs
UploadAnswered ==
    /\ Current = "fileUploadMiddleware"
    /\ up.pc = "done"
    /\ up.res # <<>>
    /\ rt' = [rt EXCEPT !.pc = "done", !.res = @ \o up.res]
    /\ UNCHANGED <<cfg, db>>
    /\ UNCHANGED listVars
    /\ UNCHANGED crudVars
    /\ UNCHANGED upVars

\* asyncHandler(controller.<operation>.bind(controller)) is called
RunHandler ==
    \/ Current = "getAll" /\ GetAll(rt.query)
    \/ Current = "create" /\ Create(1, rt.body)
    \/ Current = "getById" /\ GetById(1, rt.id)
    \/ Current = "update" /\ Update(1, rt.id, rt.body)
    \/ Current = "delete" /\ Delete(1, rt.id)

(***************************************************************************)
(* The requests and configurations list is run with.                       *)
(***************************************************************************)
Opt(k, x) == IF x = Undef THEN EmptyMap ELSE k :> x

CatVals == {Undef, StrV(<<>>), StrV(CatX)}
NameVals == {Undef, StrV(<<>>), StrV(<<"a", "L">>), ArrV(<<NameBob, NameZed>>)}
RoleVals == {Undef, StrV(RoleAdmin)}
PageVals == {Undef, StrV(<<>>), StrV(<<"0">>), StrV(<<"1">>), StrV(<<"3">>),
             StrV(<<"-", "2">>), StrV(<<"a", "b", "c">>)}
PageSizeVals == {Undef, StrV(<<"1", "0">>), StrV(<<"5", "0", "0">>), StrV(<<"0">>),
                 StrV(<<"-", "5">>), StrV(<<"2", "x">>)}

FilterPart(c, n, r) == Opt("cat", c) @@ Opt("name", n) @@ Opt("role", r)
PagePart(p, z) == Opt("page", p) @@ Opt("pageSize", z)
FilterParts == {FilterPart(c, n, r) : c \in CatVals, n \in NameVals, r \in RoleVals}
PageParts == {PagePart(p, z) : p \in PageVals, z \in PageSizeVals}
FewFilterParts == {EmptyMap, FilterPart(StrV(CatX), Undef, StrV(RoleAdmin))}
FewPageParts == {EmptyMap, PagePart(StrV(<<"1">>), StrV(<<"1", "0">>))}

\* req.query: every filter part with a few page parts, every page part with
\* a few filter parts
ListQueries ==
    {f @@ p : f \in FilterParts, p \in FewPageParts}
        \cup {f @@ p : f \in FewFilterParts, p \in PageParts}

Config(orderBy, query, search, runAfterCreate) ==
    [orderBy |-> orderBy, query |-> query, search |-> search, runAfterCreate |-> runAfterCreate]

OrderBys == {StrNone, <<"n", "a", "m", "e">>, <<"-", "n", "a", "m", "e">>}
AllowLists == {<<>>, <<"cat">>, <<"cat", "name">>}
\* the sizes of the collection when the first list request arrives
ListSizes == {0, 1, 3, 10, 11, 25, MaxRecords}
SearchFields == {"none", "name"}
ListConfigs ==
    {Config(o, a, s, "none") : o \in OrderBys, a \in AllowLists, s \in SearchFields}

ListAtRest ==
    /\ lreq = EmptyMap
    /\ lst = ListIdle
    /\ lres = <<>>
    /\ lcalls = <<>>

CrudAtRest ==
    /\ reqs = [r \in Reqs |-> ReqIdle]
    /\ delOk = {}

FullEnv == [k \in Range(requiredEnv) |-> "set"]
EnvPool ==
    {FullEnv, EmptyMap, [FullEnv EXCEPT !["S3_ENDPOINT"] = ""],
     [k \in Range(requiredEnv) \ {"S3_BUCKET_NAME"} |-> "set"]}

\* the module is loaded: missingEnv is computed from the environment
UploadLoaded ==
    /\ env \in EnvPool
    /\ envAtLoad = env
    /\ missingEnv = MissingEnvOf(env)
    /\ up = UpIdle

InitList ==
    /\ cfg \in ListConfigs
    /\ db \in {ListColl(n) : n \in ListSizes}
    /\ ListAtRest
    /\ CrudAtRest
    /\ env = FullEnv /\ envAtLoad = FullEnv /\ missingEnv = <<>> /\ up = UpIdle
    /\ rt = RtIdle

NextList ==
    \/ \E q \in ListQueries : GetAll(q)
    \/ \E ok \in BOOLEAN : ListFindDone(ok)
    \/ \E ok \in BOOLEAN : PageCountDone(ok)
    \/ \E ok \in BOOLEAN : PageFindDone(ok)
    \/ ListConcurrentWrite

SpecList == InitList /\ [][NextList]_vars

(***************************************************************************)
(* The requests and configurations getById, create, update and delete are  *)
(* run with.                                                               *)
(***************************************************************************)
ShortNonHex == Rep("z", 10)
NonHex24 == Rep("0", 23) \o <<"g">>
BadCat == <<"b", "a", "d">>
ValidIds == {IdOf(1), IdOf(2)}
CrudIds == ValidIds \cup {ShortNonHex, NonHex24}

UpdateBodies == {"cat" :> CatX, "cat" :> BadCat, "name" :> NameBob}
CreateBodies ==
    {("cat" :> CatX) @@ ("name" :> NameBob),
     ("_id" :> IdOf(1)) @@ ("cat" :> CatX) @@ ("name" :> NameBob),
     ("cat" :> BadCat) @@ ("name" :> NameBob)}
CrudConfigs == {Config(StrNone, <<>>, "none", cb) : cb \in {"none", "function"}}
CallbackOutcomes == {"returns", "throwsError", "throwsNullish"}

Init ==
    /\ cfg \in CrudConfigs
    /\ db \in {ListColl(n) : n \in 0..Cardinality(ValidIds)}
    /\ CrudAtRest
    /\ ListAtRest
    /\ env = FullEnv /\ envAtLoad = FullEnv /\ missingEnv = <<>> /\ up = UpIdle
    /\ rt = RtIdle

Next ==
    \/ \E r \in Reqs, id \in CrudIds : GetById(r, id)
    \/ \E r \in Reqs, id \in CrudIds, body \in UpdateBodies : Update(r, id, body)
    \/ \E r \in Reqs, id \in CrudIds : Delete(r, id)
    \/ \E r \in Reqs, body \in CreateBodies : Create(r, body)
    \/ \E r \in Reqs, ok \in BOOLEAN : LookupDone(r, ok)
    \/ \E r \in Reqs, ok \in BOOLEAN : UpdateDone(r, ok)
    \/ \E r \in Reqs, ok \in BOOLEAN : DeleteDone(r, ok)
    \/ \E r \in Reqs, ok \in BOOLEAN, newId \in ValidIds : InsertDone(r, ok, newId)
    \/ \E r \in Reqs, outcome \in CallbackOutcomes : CallbackDone(r, outcome)
    \/ \E r \in Reqs : Finish(r)

Spec == Init /\ [][Next]_vars


(***************************************************************************)
(* The requests and descriptor lists the upload adapter is run with.       *)
(***************************************************************************)
FieldLists ==
    {<<Field("file", 1)>>, <<Field("avatar", 1)>>, <<Field("photos", 5)>>,
     <<Field("avatar", 1), Field("photos", 5)>>}
PartLists ==
    {<<>>, <<"avatar">>, <<"file">>, <<"photos">>, <<"photos", "photos", "photos">>,
     <<"avatar", "photos", "photos">>, <<"avatar", "avatar">>}
UploadBodies == {EmptyMap, ("title" :> StrV("Hello")) @@ ("avatar" :> StrV("old.png"))}
StorageOutcomes == {"ok", "fails", "failsNoMessage"}

InitUpload ==
    /\ UploadLoaded
    /\ cfg = Config(StrNone, <<>>, "none", "none")
    /\ db = <<>>
    /\ ListAtRest
    /\ CrudAtRest
    /\ rt = RtIdle

NextUpload ==
    \/ \E fields \in FieldLists, parts \in PartLists, body \in UploadBodies :
           FileUploadMiddleware(fields, parts, body)
    \/ \E storage \in StorageOutcomes : HandleUploadResult(storage)
    \/ UploadFinish
    \/ \E e \in EnvPool : EnvChange(e)

SpecUpload == InitUpload /\ [][NextUpload]_vars

(***************************************************************************)
(* The routers that are built and the requests they are sent.  One request *)
(* is dispatched on the first request slot.                                *)
(***************************************************************************)
RouterKinds == {"createRouter", "createRouterS3upload"}
RouterFieldLists == {<<Field("avatar", 1)>>, <<Field("avatar", 1), Field("photos", 5)>>}
RouterConfigs ==
    {[RtIdle EXCEPT !.kind = kind, !.middlewares = n,
                    !.fields = IF kind = "createRouter" THEN <<>> ELSE fields] :
        kind \in RouterKinds, n \in 0..MaxMiddlewares, fields \in RouterFieldLists}

RouterBodies == {("cat" :> CatX) @@ ("name" :> NameBob), "name" :> NameZed}
RouterQueries == FewPageParts
RouterParts == {<<>>, <<"avatar">>, <<"photos", "photos">>}
RouterIds == {IdOf(1), ShortNonHex}
MiddlewareOutcomes == {"next", "responds"}

\* a request for one of the five routes
RouterRequest(method, path, id, body, query, parts) ==
    /\ \/ path = "/" /\ method \in {"GET", "POST"} /\ id = <<>>
       \/ path = "/:id" /\ method \in {"GET", "PATCH", "DELETE"} /\ id \in RouterIds
    /\ body \in (IF method \in {"POST", "PATCH"} THEN RouterBodies ELSE {EmptyMap})
    /\ query \in (IF method = "GET" /\ path = "/" THEN RouterQueries ELSE {EmptyMap})
    /\ parts \in (IF method \in {"POST", "PATCH"} /\ rt.kind = "createRouterS3upload"
                  THEN RouterParts ELSE {<<>>})

InitRouter ==
    /\ cfg \in CrudConfigs
    /\ db \in {ListColl(n) : n \in 0..1}
    /\ ListAtRest
    /\ CrudAtRest
    /\ env \in {FullEnv, EmptyMap}
    /\ envAtLoad = env
    /\ missingEnv = MissingEnvOf(env)
    /\ up = UpIdle
    /\ rt \in RouterConfigs

NextRouter ==
    \/ \E method \in {"GET", "POST", "PATCH", "DELETE"}, path \in {"/", "/:id"},
          id \in RouterIds \cup {<<>>}, body \in RouterBodies \cup {EmptyMap},
          query \in RouterQueries, parts \in RouterParts :
           /\ RouterRequest(method, path, id, body, query, parts)
           /\ RouteRequest(method, path, id, body, query, parts)
    \/ \E outcome \in MiddlewareOutcomes : RunMiddleware(outcome)
    \/ RunUploadAdapter
    \/ \E storage \in StorageOutcomes : HandleUploadResult(storage)
    \/ UploadOnward
    \/ UploadAnswered
    \/ RunHandler
    \/ \E ok \in BOOLEAN : ListFindDone(ok)
    \/ \E ok \in BOOLEAN : PageCountDone(ok)
    \/ \E ok \in BOOLEAN : PageFindDone(ok)
    \/ \E ok \in BOOLEAN : LookupDone(1, ok)
    \/ \E ok \in BOOLEAN : UpdateDone(1, ok)
    \/ \E ok \in BOOLEAN : DeleteDone(1, ok)
    \/ \E ok \in BOOLEAN, newId \in ValidIds : InsertDone(1, ok, newId)
    \/ \E outcome \in CallbackOutcomes : CallbackDone(1, outcome)

SpecRouter == InitRouter /\ [][NextRouter]_vars

(***************************************************************************)
(* Claims about getById, create, update and delete (checked under Spec).   *)
(***************************************************************************)
\* the identifier format, stated on its own: 24 hexadecimal characters
WellFormedId(id) == Len(id) = 24 /\ Range(id) \subseteq HexChars
Done(r) == reqs[r].pc = "done"
Status(r) == reqs[r].res[1].status
Data(r) == reqs[r].res[1].body.data
\* request r is answered in this step
Answers(r) == reqs[r].pc # "done" /\ reqs'[r].pc = "done"
StatusNext(r) == reqs'[r].res[1].status

\* C5, in the states: a getById with a malformed identifier is answered 400
\* without any call to the model; with a well-formed identifier it is
\* answered 404 when the lookup finds no document and 200 with a document of
\* that identifier when it finds one.
C5_GetByIdStates ==
    \A r \in Reqs :
        (reqs[r].op = "getById" /\ Done(r)) =>
            /\ ~WellFormedId(reqs[r].id) => (Status(r) = 400 /\ reqs[r].calls = 0)
            /\ WellFormedId(reqs[r].id) =>
                   /\ reqs[r].calls = 1
                   /\ reqs[r].seen = "null" => Status(r) = 404
                   /\ reqs[r].seen = "doc" => (Status(r) = 200 /\ Data(r)._id = reqs[r].id)

\* C5, in the steps: the answer to a lookup that returns is decided by the
\* collection at that moment: 404 when no document has the identifier, else
\* 200 with exactly the stored document.
C5_GetByIdSteps ==
    \A r \in Reqs :
        (reqs[r].op = "getById" /\ reqs[r].pc = "lookup" /\ Answers(r)
            /\ reqs'[r].seen # "threw") =>
                IF reqs[r].id \in IdsIn(db)
                THEN /\ StatusNext(r) = 200
                     /\ reqs'[r].res[1].body.data \in Range(db)
                     /\ reqs'[r].res[1].body.data._id = reqs[r].id
                ELSE StatusNext(r) = 404

\* C5: getById answers 400 for a malformed identifier and never queries the
\* model, 404 for a well-formed identifier without a document, and 200 with
\* exactly the matching document otherwise.
C5_GetById == []C5_GetByIdStates /\ [][C5_GetByIdSteps]_vars

\* C5 happens: a non-hex 10-character identifier was answered 400 and the
\* identifier of a stored document 200.
C5_Witness ==
    \E r1, r2 \in Reqs :
        /\ reqs[r1].op = "getById" /\ Done(r1) /\ reqs[r1].id = ShortNonHex /\ Status(r1) = 400
        /\ reqs[r2].op = "getById" /\ Done(r2) /\ Status(r2) = 200 /\ Data(r2) \in Range(db)

\* C6: create answers 400 without calling the callback when the insert
\* fails; when it succeeds the callback (a function) is called exactly once
\* with the created document before the response, and the response is 201
\* with the created document whether the callback returns or throws.
C6_CreateAndCallback ==
    \A r \in Reqs :
        reqs[r].op = "create" =>
            /\ (Done(r) /\ reqs[r].inserted = Null) => (Status(r) = 400 /\ reqs[r].cb = 0)
            /\ (Done(r) /\ reqs[r].inserted # Null) =>
                   /\ Status(r) = 201
                   /\ Data(r) = reqs[r].inserted
                   /\ cfg.runAfterCreate = "function" =>
                          (reqs[r].cb = 1 /\ reqs[r].cbArg = reqs[r].inserted)
            /\ reqs[r].cb <= 1
            /\ reqs[r].res = <<>> \/ reqs[r].pc = "done"

\* C7: a backend failure in the lookup, the insert, the update or the
\* removal is answered 500; 400 only answers a malformed identifier or a
\* failed schema validation, and 404 only a missing document.
C7_ErrorTaxonomy ==
    \A r \in Reqs :
        Done(r) =>
            /\ reqs[r].fail = "backend" => Status(r) = 500
            /\ Status(r) = 400 =>
                   \/ (reqs[r].op # "create" /\ ~WellFormedId(reqs[r].id))
                   \/ reqs[r].fail = "validation"
            /\ Status(r) = 404 => reqs[r].seen = "null"

\* C8: update issues no write after a 400 or 404; a 200 response carries the
\* updated document, never null, with the body's keys set; a validation
\* failure is answered 400.
C8_Update ==
    \A r \in Reqs :
        (reqs[r].op = "update" /\ Done(r)) =>
            /\ (~WellFormedId(reqs[r].id) \/ reqs[r].seen = "null") =>
                   (Status(r) \in {400, 404} /\ reqs[r].writes = 0)
            /\ Status(r) = 200 =>
                   /\ Data(r) # Null
                   /\ \A k \in DOMAIN reqs[r].body : Data(r)[k] = reqs[r].body[k]
            /\ reqs[r].fail = "validation" => Status(r) = 400

\* C9, in the states: a delete with a malformed identifier (400) or without
\* a document (404) issues no removal; one whose lookup found the document
\* is answered 200 with a confirmation, or 500 when the removal failed; and a
\* request by identifier that arrived after a delete of that identifier was
\* answered 200, with no document of that identifier created since, is
\* answered 404 whenever its lookup returns.
C9_DeleteStates ==
    /\ \A id \in delOk : id \notin IdsIn(db)
    /\ \A r \in Reqs :
           /\ (reqs[r].op = "delete" /\ Done(r)) =>
                  /\ ~WellFormedId(reqs[r].id) => (Status(r) = 400 /\ reqs[r].writes = 0)
                  /\ reqs[r].seen = "null" => (Status(r) = 404 /\ reqs[r].writes = 0)
                  /\ reqs[r].seen = "doc" =>
                         /\ reqs[r].writes = 1
                         /\ Status(r) = (IF reqs[r].fail = "backend" THEN 500 ELSE 200)
                         /\ Status(r) = 200 =>
                                reqs[r].res[1].body.message = "Item successfully deleted."
           /\ (reqs[r].op \in {"getById", "update", "delete"} /\ Done(r) /\ reqs[r].late
                   /\ reqs[r].seen # "threw") => Status(r) = 404

\* C9, in the steps: the step that answers a delete 200 removes the document
\* of that identifier and no other; every other answer of a delete leaves the
\* collection as it is.
C9_DeleteSteps ==
    \A r \in Reqs :
        (reqs[r].op = "delete" /\ Answers(r)) =>
            IF StatusNext(r) = 200
            THEN /\ reqs[r].id \notin IdsIn(db')
                 /\ Range(db') = {d \in Range(db) : d._id # reqs[r].id}
                 /\ Len(db') = Cardinality(Range(db'))
            ELSE db' = db

\* C9: delete short-circuits on 400 and 404 and removes nothing; otherwise it
\* removes exactly the document of that identifier and answers 200, or 500
\* when the removal fails and the document stays; after a delete answered
\* 200, a getById, update or delete of that identifier is answered 404 unless
\* a document of that identifier is created again.
C9_Delete == []C9_DeleteStates /\ [][C9_DeleteSteps]_vars

\* C9 happens: a delete was answered 200, another document is still stored,
\* and a later request for the deleted identifier was answered 404.
C9_Witness ==
    \E r1, r2 \in Reqs :
        /\ reqs[r1].op = "delete" /\ Done(r1) /\ Status(r1) = 200
        /\ reqs[r2].id = reqs[r1].id /\ reqs[r2].late /\ Done(r2) /\ Status(r2) = 404
        /\ db # <<>>

(***************************************************************************)
(* Claims about list (checked under SpecList).                             *)
(***************************************************************************)
SearchKeys == IF cfg.search = "none" THEN {} ELSE {cfg.search}
HasPagination(r) == "pagination" \in DOMAIN r.body
ListAnswered == Len(lres) > 0
ListOk == ListAnswered /\ lres[1].status = 200

\* C1: every filter handed to the model has keys only among the allow-list
\* (query) and the configured search field, and every allow-listed field
\* other than the search field that the query string carries is in the filter
\* with exactly the value supplied.
C1_FilterOnlyAllowListed ==
    \A i \in DOMAIN lcalls :
        LET f == lcalls[i].filter
        IN  /\ DOMAIN f \subseteq (Range(cfg.query) \cup SearchKeys)
            /\ \A k \in Range(cfg.query) \ SearchKeys :
                   k \in DOMAIN lreq => (k \in DOMAIN f /\ f[k] = lreq[k])

\* C1 happens: a query with an allow-listed and a non-allow-listed parameter
\* has reached the model.
C1_Witness ==
    /\ lcalls # <<>>
    /\ "role" \in DOMAIN lreq
    /\ "cat" \in Range(cfg.query) /\ "cat" \in DOMAIN lreq
    /\ lcalls[1].filter["cat"] = lreq["cat"]
    /\ "role" \notin DOMAIN lcalls[1].filter

\* C2 (as amended): when a search field s is configured and the query string
\* supplies s with a non-empty value, the filter entry for s is the
\* case-insensitive regex on the supplied value, also when s is allow-listed.
C2_SearchRegexWhenNonEmpty ==
    (cfg.search # "none" /\ Truthy(Param(lreq, cfg.search))) =>
        \A i \in DOMAIN lcalls :
            /\ cfg.search \in DOMAIN lcalls[i].filter
            /\ lcalls[i].filter[cfg.search] = RegexEntry(ToStr(lreq[cfg.search]))

\* C2 as stated: the regex entry is there whenever s is supplied, with any
\* value, the empty string included.
C2_SearchRegexWheneverSupplied ==
    (cfg.search # "none" /\ cfg.search \in DOMAIN lreq) =>
        \A i \in DOMAIN lcalls :
            /\ cfg.search \in DOMAIN lcalls[i].filter
            /\ lcalls[i].filter[cfg.search].t = "regex"

\* C2 happens: the search field is also allow-listed, the query supplies it,
\* and the model got the regex entry.
C2_Witness ==
    /\ lcalls # <<>>
    /\ cfg.search # "none" /\ cfg.search \in Range(cfg.query)
    /\ Truthy(Param(lreq, cfg.search))
    /\ lcalls[1].filter[cfg.search].t = "regex"
    /\ lcalls[1].filter[cfg.search].options = "i"

PageParamInt == ParseInt(Param(lreq, "page"))
PageSizeParamInt == ParseInt(Param(lreq, "pageSize"))

\* C3: a paginated response reports currentPage >= 1 and 1 <= pageSize <= 100
\* (page 0 or negative becomes 1, pageSize above 100 becomes 100); the fetch
\* skips (currentPage-1)*pageSize documents and returns at most pageSize; and
\* totalPages is the ceiling of totalRecords / pageSize: page=1, pageSize=10
\* over 25 matching documents gives 3 pages and exactly 10 documents.
C3_Pagination ==
    (ListOk /\ HasPagination(lres[1])) =>
        LET pg == lres[1].body.pagination
            data == lres[1].body.data
        IN  /\ pg.currentPage >= 1
            /\ pg.pageSize >= 1 /\ pg.pageSize <= 100
            /\ (~PageParamInt.nan /\ PageParamInt.n <= 0) => pg.currentPage = 1
            /\ (~PageParamInt.nan /\ PageParamInt.n >= 1) => pg.currentPage = PageParamInt.n
            /\ (~PageSizeParamInt.nan /\ PageSizeParamInt.n > 100) => pg.pageSize = 100
            /\ lst.findCall.skip = (pg.currentPage - 1) * pg.pageSize
            /\ lst.findCall.limit = pg.pageSize
            /\ Len(data) <= pg.pageSize
            /\ Len(data) = Min(pg.pageSize, Max(0, lst.sawFind - lst.findCall.skip))
            /\ pg.totalPages * pg.pageSize >= pg.totalRecords
            /\ (pg.totalPages - 1) * pg.pageSize < pg.totalRecords \/ pg.totalPages = 0
            /\ (/\ Param(lreq, "page") = StrV(<<"1">>)
                /\ Param(lreq, "pageSize") = StrV(<<"1", "0">>)
                /\ pg.totalRecords = 25 /\ lst.sawFind = 25)
                   => (pg.totalPages = 3 /\ pg.currentPage = 1 /\ Len(data) = 10)

\* C3 happens: page=1, pageSize=10 over 25 matching documents was answered.
C3_Witness ==
    /\ ListOk /\ HasPagination(lres[1])
    /\ Param(lreq, "page") = StrV(<<"1">>)
    /\ Param(lreq, "pageSize") = StrV(<<"1", "0">>)
    /\ lres[1].body.pagination.totalRecords = 25
    /\ lst.sawFind = 25
    /\ lres[1].body.pagination.totalPages = 3
    /\ Len(lres[1].body.data) = 10

\* data is every document of the collection that matches the filter, in the
\* order of the sort specification
AllMatchingSorted(data, call) ==
    /\ Range(data) = {d \in Range(db) : Matches(d, call.filter)}
    /\ Len(data) = Cardinality(Range(data))
    /\ \A i \in 1..(Len(data) - 1) : ~SortedBefore(data[i + 1], data[i], call.sort)

\* C4 (as amended): a list request takes the paginated path exactly when the
\* page parameter is present with a non-empty value ("0" and non-numeric
\* strings included); otherwise the response is all documents matching the
\* filter, sorted, with no pagination object.
C4_PagePathIffNonEmptyPage ==
    /\ lcalls # <<>> =>
           ((\E i \in DOMAIN lcalls : lcalls[i].op = "countDocuments")
                <=> Truthy(Param(lreq, "page")))
    /\ ListOk =>
           /\ HasPagination(lres[1]) <=> Truthy(Param(lreq, "page"))
           /\ ~Truthy(Param(lreq, "page")) =>
                  AllMatchingSorted(lres[1].body.data, lst.findCall)

\* C4 as stated: the paginated path is taken exactly when page is present,
\* whatever its value, the empty string included.
C4_PagePathIffPagePresent ==
    ListOk => (HasPagination(lres[1]) <=> "page" \in DOMAIN lreq)

\* C4 happens: page=0 was answered with a pagination object.
C4_Witness ==
    /\ ListOk
    /\ Param(lreq, "page") = StrV(<<"0">>)
    /\ HasPagination(lres[1])

(***************************************************************************)
(* Claim about the upload adapter (checked under SpecUpload).              *)
(***************************************************************************)
\* the configuration was incomplete when the module was loaded
MissingAtLoad ==
    \E key \in Range(requiredEnv) : key \notin DOMAIN envAtLoad \/ envAtLoad[key] = ""

UploadResponse(status, message) ==
    [status |-> status, body |-> [success |-> FALSE, error |-> message]]

C10_UploadStates ==
    /\ up.pc # "done" => up.res = <<>> /\ up.next = 0
    /\ up.pc = "uploading" => ~MissingAtLoad
    /\ up.pc = "done" =>
           \/ /\ MissingAtLoad
              /\ up.res = <<UploadResponse(503,
                     "S3 service is not properly configured on the server.")>>
              /\ ~up.attempted
              /\ up.next = 0
              /\ up.body = up.body0
           \/ /\ ~MissingAtLoad
              /\ up.attempted
              /\ up.error # "none"
              /\ up.res = <<UploadResponse(500,
                     IF up.error # "" THEN up.error ELSE "Failed to process S3 upload.")>>
              /\ up.next = 0
              /\ up.body = up.body0
              /\ up.bodyAtNext = Undefined
           \/ /\ ~MissingAtLoad
              /\ up.attempted
              /\ up.error = "none"
              /\ up.res = <<>>
              /\ up.next = 1
              /\ up.bodyAtNext = up.body
              /\ \A f \in Range(up.files) :
                     /\ f.fieldname \in DOMAIN up.body
                     /\ \/ up.body[f.fieldname] = StrV(f.location)
                        \/ /\ up.body[f.fieldname].t = "arr"
                           /\ f.location \in Range(up.body[f.fieldname].v)

C10_UploadSteps ==
    /\ missingEnv' = missingEnv
    /\ envAtLoad' = envAtLoad
    /\ (up.pc = "done" /\ up'.pc = "done") => up' = up

\* C10: a request through the upload adapter ends in exactly one of three
\* ways.  When the required storage configuration was incomplete at module
\* load, it is answered 503, no upload is attempted and the onward handler is
\* not called, whatever the environment has become since.  Otherwise, when the
\* upload fails, it is answered 500 with the failure's message (the fixed
\* text when the failure has none), the body is as it was and the onward
\* handler is not called; when the upload succeeds, nothing is sent and the
\* onward handler is called exactly once with the body already rewritten.
\* Nothing is sent or called before the outcome, and nothing after it.
C10_UploadOutcome == []C10_UploadStates /\ [][C10_UploadSteps]_vars

\* a second request answered 503 although the environment is complete by now
C10_Witness ==
    /\ up.pc = "done"
    /\ up.served >= 1
    /\ MissingEnvOf(env) = <<>>
    /\ up.res # <<>>
    /\ up.res[1].status = 503
    /\ ~up.attempted
    /\ up.next = 0

(***************************************************************************)
(* Claim about the body the upload adapter hands on (checked under         *)
(* SpecUpload).                                                            *)
(***************************************************************************)
\* every file is for a declared field and no field got more than its maxCount
WithinDeclared(fields, files) ==
    \A f \in Range(files) :
        /\ \E d \in Range(fields) : d.name = f.fieldname
        /\ \A d \in Range(fields) :
               d.name = f.fieldname =>
                   Cardinality({i \in DOMAIN files : files[i].fieldname = d.name}) <= d.maxCount

\* the locations of the files of one field, in the order of the request
LocationsFor(files, name) ==
    LET own == SelectSeq(files, LAMBDA f : f.fieldname = name)
    IN  [i \in DOMAIN own |-> own[i].location]

StorageFailed == up.error \in {"Access Denied", ""}

DescriptorNames(fields) == {d.name : d \in Range(fields)}

\* C11: for a descriptor list of length 1 or more and files within the
\* declared counts that the storage has taken, the upload succeeds and the
\* body handed on maps each field that received files to its one location
\* when the descriptor's maxCount is 1 and to the list of all its locations
\* otherwise (so {photos, 5} with three files gives a three-element list),
\* and the fields no descriptor names are as they were.
C11_BodyRewrite ==
    (/\ up.pc = "done"
     /\ up.attempted
     /\ Len(up.fields) >= 1
     /\ WithinDeclared(up.fields, up.files)
     /\ ~StorageFailed) =>
        /\ up.error = "none"
        /\ up.next = 1
        /\ \A d \in Range(up.fields) :
               LocationsFor(up.files, d.name) # <<>> =>
                   /\ d.name \in DOMAIN up.body
                   /\ up.body[d.name] =
                          IF d.maxCount = 1
                          THEN StrV(LocationsFor(up.files, d.name)[1])
                          ELSE ArrV(LocationsFor(up.files, d.name))
        /\ \A k \in (DOMAIN up.body \cup DOMAIN up.body0) \ DescriptorNames(up.fields) :
               /\ k \in DOMAIN up.body
               /\ k \in DOMAIN up.body0
               /\ up.body[k] = up.body0[k]

(***************************************************************************)
(* Claim about the routers (checked under SpecRouter).                     *)
(***************************************************************************)
HandlerStarted == reqs[1].pc # "idle" \/ lst.pc # "idle"
AdapterEntered == up.pc # "idle"
UploadRoute == rt.kind = "createRouterS3upload" /\ rt.method \in {"POST", "PATCH"}

\* the controller operation a method and path are bound to
BoundOperation(method, path) ==
    IF method = "GET" /\ path = "/" THEN "getAll"
    ELSE IF method = "POST" /\ path = "/" THEN "create"
    ELSE IF method = "GET" /\ path = "/:id" THEN "getById"
    ELSE IF method = "PATCH" /\ path = "/:id" THEN "update"
    ELSE IF method = "DELETE" /\ path = "/:id" THEN "delete"
    ELSE "none"

\* C12: in the upload-enabled router POST / and PATCH /:id start create and
\* update only when the upload adapter has called onward, and then with the
\* body the adapter left; when the adapter has answered (503 or 500) no
\* operation is started, no model call is made and the collection is as the
\* request found it.  The other routes, and every route of the plain router,
\* never enter the adapter.  Neither the adapter nor an operation starts
\* before every caller-supplied middleware has passed the request on.  In
\* both routers the five routes start list, getById, create, update and
\* delete, with the request's identifier and query.
C12_RouteOrdering ==
    /\ UploadRoute =>
           /\ HandlerStarted =>
                  /\ up.pc = "done"
                  /\ up.next = 1
                  /\ up.res = <<>>
                  /\ reqs[1].body = up.body
           /\ up.res # <<>> =>
                  /\ up.res[1].status \in {500, 503}
                  /\ ~HandlerStarted
                  /\ reqs[1].calls = 0
                  /\ lcalls = <<>>
                  /\ db = rt.db0
    /\ ~UploadRoute => (~AdapterEntered /\ ~up.attempted /\ up.next = 0 /\ up.res = <<>>)
    /\ (HandlerStarted \/ AdapterEntered) => rt.passed = rt.middlewares
    /\ (rt.pc # "idle" /\ rt.passed < rt.middlewares) =>
           (reqs[1].calls = 0 /\ lcalls = <<>> /\ db = rt.db0)
    /\ HandlerStarted =>
           LET operation == BoundOperation(rt.method, rt.path)
           IN  /\ operation # "none"
               /\ operation = "getAll" => (lst.pc # "idle" /\ reqs[1].pc = "idle" /\ lreq = rt.query)
               /\ operation # "getAll" =>
                      /\ lst.pc = "idle"
                      /\ reqs[1].op = operation
                      /\ rt.path = "/:id" => reqs[1].id = rt.id
                      /\ (operation \in {"create", "update"} /\ ~UploadRoute) =>
                             reqs[1].body = rt.body

\* a POST with a file went through two middlewares and the adapter, and
\* create has answered 201
C12_Witness ==
    /\ UploadRoute
    /\ rt.method = "POST"
    /\ rt.middlewares = 2
    /\ rt.passed = 2
    /\ rt.parts # <<>>
    /\ up.next = 1
    /\ reqs[1].pc = "done"
    /\ reqs[1].op = "create"
    /\ reqs[1].res[1].status = 201
    /\ db # rt.db0

(***************************************************************************)
(* Claim about the sort specification of list (checked under SpecList).    *)
(***************************************************************************)
FindCalls == {i \in DOMAIN lcalls : lcalls[i].op = "find"}

\* C13: every find that list hands to the model carries a sort specification
\* decided by the configured orderBy alone, whatever the query string: empty
\* for "none", descending (-1) on the rest of the value when it starts with
\* "-", ascending (1) on the value otherwise.
C13_SortFromOrderBy ==
    \A i \in FindCalls :
        LET sort == lcalls[i].sort
            orderBy == cfg.orderBy
        IN  /\ orderBy = <<"n", "o", "n", "e">> => DOMAIN sort = {}
            /\ (orderBy # <<"n", "o", "n", "e">> /\ orderBy # <<>> /\ orderBy[1] = "-") =>
                   /\ DOMAIN sort = {Join(SubSeq(orderBy, 2, Len(orderBy)))}
                   /\ \A k \in DOMAIN sort : sort[k] = 0 - 1
            /\ (orderBy # <<"n", "o", "n", "e">> /\ (orderBy = <<>> \/ orderBy[1] # "-")) =>
                   /\ DOMAIN sort = {Join(orderBy)}
                   /\ \A k \in DOMAIN sort : sort[k] = 1

\* a list request that carries parameters, under orderBy "-name", has
\* reached the model with a descending sort on name
C13_Witness ==
    /\ cfg.orderBy = <<"-", "n", "a", "m", "e">>
    /\ FindCalls # {}
    /\ "name" \in DOMAIN lreq
    /\ "page" \in DOMAIN lreq
    /\ \A i \in FindCalls : lcalls[i].sort = ("name" :> (0 - 1))

(***************************************************************************)
(* Claim about the responses of the five operations (checked under         *)
(* SpecRouter, where each is started through asyncHandler).                *)
(***************************************************************************)
\* {success: true, ...} on 200 and 201, {success: false, error} on 400, 404, 500
Envelope(response) ==
    /\ response.status \in {200, 201, 400, 404, 500}
    /\ "success" \in DOMAIN response.body
    /\ response.status \in {200, 201} => response.body.success = TRUE
    /\ response.status \in {400, 404, 500} =>
           /\ response.body.success = FALSE
           /\ DOMAIN response.body = {"success", "error"}

\* the calls and callbacks an operation is suspended on
CrudAwaiting == reqs[1].pc \in {"lookup", "write", "remove", "insert", "callback"}
ListAwaiting == lst.pc = "find" \/ (lst.pc = "page" /\ (lst.pendCount \/ lst.pendFind))

C14_ResponseStates ==
    /\ Len(reqs[1].res) <= 1
    /\ Len(lres) <= 1
    /\ \A i \in DOMAIN reqs[1].res : Envelope(reqs[1].res[i])
    /\ \A i \in DOMAIN lres : Envelope(lres[i])
    /\ reqs[1].pc # "idle" =>
           /\ reqs[1].op \in {"getById", "create", "update", "delete"}
           /\ (Len(reqs[1].res) = 0) = CrudAwaiting
           /\ (Len(reqs[1].res) = 1) = (reqs[1].pc = "done")
           /\ reqs[1].fail # "none" =>
                  (Len(reqs[1].res) = 1 /\ reqs[1].res[1].status \in {400, 500})
           /\ rt.res = <<>> /\ lres = <<>>
    /\ lst.pc # "idle" =>
           /\ (Len(lres) = 0) = ListAwaiting
           /\ (Len(lres) = 1) = (lst.pc = "done")
           /\ rt.res = <<>> /\ reqs[1].res = <<>>

C14_ResponseSteps ==
    /\ reqs[1].res # <<>> => reqs'[1].res = reqs[1].res
    /\ lres # <<>> => lres' = lres
    /\ (reqs[1].pc = "done" => reqs'[1].pc = "done")
    /\ (lst.pc = "done" => lst'.pc = "done")

\* C14: list, getById, create, update and delete, started by the router,
\* send exactly one response on every path: none while a model call or the
\* callback is awaited, one as soon as the operation is over, never a second
\* (also when the second of the two paginated calls settles after the first
\* was rejected); a failed call or callback ends in one 400 or 500 response;
\* every response is the success envelope on 200/201 or the error envelope
\* on 400/404/500.  An operation is never over without a response, which is
\* what a rejected handler promise would be.  A model call that fails rejects
\* with an Error object, as the calls of a Mongoose model do.
C14_ExactlyOneResponse == []C14_ResponseStates /\ [][C14_ResponseSteps]_vars

\* both paginated calls have settled, one of them rejected, and the one
\* response is the 500
C14_Witness ==
    /\ lst.pc = "done"
    /\ lst.countCall # NoCall
    /\ ~lst.pendCount
    /\ ~lst.pendFind
    /\ Len(lres) = 1
    /\ lres[1].status = 500

====
